---- MODULE Spec2Model ----
(***************************************************************************)
(* Guacamole connection provisioner                                        *)
(* (dockerfiles/guacamole-provisioner/provision_connections.py):           *)
(* the lifecycle of main(), one reconciliation cycle of                    *)
(* process_connections() against the PostgreSQL store, the fingerprint     *)
(* cache and the connection pool.                                          *)
(***************************************************************************)
EXTENDS Integers, Sequences, FiniteSets, Bags, TLC

(***************************************************************************)
(* Bounds of the model.                                                    *)
(***************************************************************************)
\* number of changes the environment makes to the definition files
MaxEdits == 1
\* number of store errors the environment injects (startup failures apart)
MaxFaults == 1
\* index of the last statement of one create_or_update_connection call at
\* which an error is injected
MaxStmts == 8
\* sleep steps counted after the termination request
MaxSleeps == 3

(***************************************************************************)
(* Program constants.                                                      *)
(***************************************************************************)
\* wait_for_guacamole: max_retries = 10
max_retries == 10
\* POLL_INTERVAL (environment variable POLL_INTERVAL, one-second sleep steps)
POLL_INTERVAL == 2

(***************************************************************************)
(* Values of a YAML document.  A scalar keeps its YAML type, so that       *)
(* str(value) and the dictionary comparison of line 226 are computed as    *)
(* Python computes them: str(1) = "1", and 1 /= "1".                       *)
(***************************************************************************)
S(v) == [t |-> "str", v |-> v]
I(v) == [t |-> "int", v |-> v]
str(value) == [t |-> "str", v |-> value.v]

EmptyDict == [x \in {} |-> x]

Definition(name, protocol, hasParameters, parameters, hasUsers, users, hasPermissions, permissions) ==
  [name |-> name, protocol |-> protocol,
   hasParameters |-> hasParameters, parameters |-> parameters,
   hasUsers |-> hasUsers, users |-> users,
   hasPermissions |-> hasPermissions, permissions |-> permissions]

(***************************************************************************)
(* The connection.yaml documents the environment may put into the          *)
(* directories of CONNECTIONS_DIR.  "absent": the directory holds no       *)
(* connection.yaml; "bad": not YAML; "empty": a document that loads as     *)
(* None.                                                                   *)
(***************************************************************************)
Files == {"f1", "f2"}
FileOrder == <<"f1", "f2">>

DocsOf(f) ==
  IF f = "f1" THEN {"A", "B", "C", "D", "E", "empty"}
              ELSE {"absent", "F", "G", "bad"}

yaml_safe_load(doc) ==
  CASE doc = "A" -> Definition("c1", "ssh", TRUE, ("a" :> S(1)) @@ ("b" :> S(2)),
                               FALSE, <<>>, FALSE, <<>>)
    [] doc = "B" -> Definition("c1", "ssh", TRUE, ("a" :> S(1)) @@ ("c" :> S(3)),
                               TRUE, <<"alice">>, FALSE, <<>>)
    [] doc = "C" -> Definition("c1", "rdp", TRUE, ("a" :> S(1)) @@ ("b" :> S(2)),
                               TRUE, <<"alice">>, TRUE, <<"READ", "UPDATE">>)
    [] doc = "D" -> Definition("c1", "ssh", FALSE, EmptyDict,
                               TRUE, <<>>, FALSE, <<>>)
    [] doc = "E" -> Definition("c1", "ssh", TRUE, EmptyDict,
                               FALSE, <<>>, FALSE, <<>>)
    [] doc = "F" -> Definition("c2", "vnc", TRUE, ("a" :> I(1)),
                               TRUE, <<"alice", "bob">>, TRUE, <<"READ">>)
    [] doc = "G" -> Definition("c1", "ssh", TRUE, ("a" :> S(2)),
                               TRUE, <<"bob", "alice">>, FALSE, <<>>)

IsDefinition(doc) == doc \in {"A", "B", "C", "D", "E", "F", "G"}

(***************************************************************************)
(* compute_file_hash: the SHA-256 digest of the bytes, None when the file  *)
(* cannot be read.  The digest is collision resistant: distinct documents  *)
(* have distinct digests.                                                  *)
(***************************************************************************)
None == <<>>
Sha256(doc) == <<"sha256", doc>>
\* the except clause of line 107 returning the digest of no bytes instead of
\* None
compute_file_hash_of_nothing(file) ==
  Sha256(IF file.readable THEN file.doc ELSE "")

compute_file_hash(file) == IF file.readable THEN Sha256(file.doc) ELSE None

(***************************************************************************)
(* The relational store: the four tables of the Guacamole schema the       *)
(* provisioner reads and writes.  permission is a bag, so that a second    *)
(* row for one grant would show.                                           *)
(***************************************************************************)
EmptyStore ==
  [connection |-> {}, parameter |-> {}, entity |-> {}, permission |-> EmptyBag]

MaxOf(ns) == IF ns = {} THEN 0 ELSE CHOOSE m \in ns : \A n \in ns : n <= m

\* a cursor: the transaction's view of the store, the number of statements
\* executed by the current call, the statement at which an error of the
\* given kind is injected (0: none), whether an error was raised, and the
\* number of writing statements executed
Cursor(db, fail, kind) ==
  [db |-> db, n |-> 0, fail |-> fail, kind |-> kind, raised |-> FALSE, writes |-> 0]

\* cursor.execute / execute_batch of one statement that leaves the store db2.
\* binds: the statement binds values taken from the definition; the driver
\* raises for a value it cannot adapt before anything is sent, so a
\* "client" error arises at such statements only.
execute(cur, db2, isWrite, binds) ==
  IF cur.raised THEN cur
  ELSE IF cur.n + 1 = cur.fail /\ (cur.kind # "client" \/ binds)
       THEN [cur EXCEPT !.n = @ + 1, !.raised = TRUE]
  ELSE [cur EXCEPT !.n = @ + 1, !.db = db2,
                   !.writes = @ + (IF isWrite THEN 1 ELSE 0)]

\* the INSERT of line 115 without ON CONFLICT (name, type): a row is added
\* at every reference
get_or_create_entity_always_insert(cur, username) ==
  execute(cur,
          [cur.db EXCEPT !.entity = @ \cup
             {[entity_id |-> MaxOf({e.entity_id : e \in cur.db.entity}) + 1,
               name |-> username, type |-> "USER"]}],
          TRUE, TRUE)

\* INSERT INTO guacamole_entity ... ON CONFLICT (name, type) DO UPDATE ... RETURNING
get_or_create_entity(cur, username) ==
  LET existing == {e \in cur.db.entity : e.name = username /\ e.type = "USER"}
      new == [entity_id |-> MaxOf({e.entity_id : e \in cur.db.entity}) + 1,
              name |-> username, type |-> "USER"]
  IN execute(cur,
             IF existing # {} THEN cur.db
             ELSE [cur.db EXCEPT !.entity = @ \cup {new}],
             TRUE, TRUE)

EntityId(db, username) ==
  (CHOOSE e \in db.entity : e.name = username /\ e.type = "USER").entity_id

\* DELETE the connection's parameter rows, then batch insert the new ones
batch_insert_parameters(cur, connection_id, parameters) ==
  IF DOMAIN parameters = {} THEN cur
  ELSE
    LET c1 == execute(cur,
                [cur.db EXCEPT !.parameter =
                   {p \in @ : p.connection_id # connection_id}],
                TRUE, FALSE)
    IN execute(c1,
         [c1.db EXCEPT !.parameter = @ \cup
            {[connection_id |-> connection_id, parameter_name |-> name,
              parameter_value |-> str(parameters[name])] : name \in DOMAIN parameters}],
         TRUE, TRUE)

RECURSIVE CreateEntities(_, _, _)
\* lines 154-157: the loop over users
CreateEntities(cur, users, j) ==
  IF j > Len(users) \/ cur.raised THEN cur
  ELSE CreateEntities(get_or_create_entity(cur, users[j]), users, j + 1)

\* the INSERT of line 168 without ON CONFLICT DO NOTHING, on a table without
\* the key: the row is added again
InsertPermissionNoConflict(permission, row) == permission (+) SetToBag({row})

\* INSERT ... ON CONFLICT DO NOTHING of one grant row
InsertPermission(permission, row) ==
  IF BagIn(row, permission) THEN permission ELSE permission (+) SetToBag({row})

\* the grants of the connection replaced as its parameters are (a DELETE of
\* the connection's rows before the INSERT)
InsertPermissionsReplacing(permission, rows) ==
  SetToBag({r \in BagToSet(permission) :
              \A q \in rows : r.connection_id # q.connection_id} \cup rows)

RECURSIVE InsertPermissions(_, _)
\* execute_batch of line 168: one INSERT for each row
InsertPermissions(permission, rows) ==
  IF rows = {} THEN permission
  ELSE LET row == CHOOSE r \in rows : TRUE
       IN InsertPermissions(InsertPermission(permission, row), rows \ {row})

batch_insert_permissions(cur, connection_id, users, permissions) ==
  IF users = <<>> THEN cur
  ELSE
    LET c1 == CreateEntities(cur, users, 1)
        values == IF c1.raised THEN {}
                  ELSE {[entity_id |-> EntityId(c1.db, users[u]),
                         connection_id |-> connection_id,
                         permission |-> permissions[p]] :
                          u \in DOMAIN users, p \in DOMAIN permissions}
    IN IF c1.raised \/ values = {} THEN c1
       ELSE execute(c1,
              [c1.db EXCEPT !.permission = InsertPermissions(@, values)],
              TRUE, TRUE)

\* the rows of guacamole_connection with this name
ByName(db, name) == {c \in db.connection : c.connection_name = name}

\* cursor.fetchone() of a SELECT by name: the row created first
FetchOne(rows) == CHOOSE r \in rows : \A q \in rows : r.connection_id <= q.connection_id

\* get_connection_state(...)['parameters']: dict(cursor.fetchall())
StoredParameters(db, connection_id) ==
  LET rows == {p \in db.parameter : p.connection_id = connection_id}
  IN [name \in {p.parameter_name : p \in rows} |->
        (CHOOSE p \in rows : p.parameter_name = name).parameter_value]

\* the SELECT by name and the SELECT of the parameter rows
get_connection_state(cur) ==
  execute(execute(cur, cur.db, FALSE, TRUE), cur.db, FALSE, FALSE)

\* the test of line 226 never true: every existing connection is updated
UnchangedNever(db, connection_id, conn_data) == FALSE

\* line 226: current_state and current_state['parameters'] == new_parameters
Unchanged(db, connection_id, conn_data) ==
  StoredParameters(db, connection_id) =
     (IF conn_data.hasParameters THEN conn_data.parameters ELSE EmptyDict)

\* the default of line 247 granting more than READ
default_permissions_read_update == <<"READ", "UPDATE">>

\* line 247: conn_data.get('permissions', ['READ'])
default_permissions == <<"READ">>

\* lines 240-249: the writes of a created or updated definition
WriteDefinition(cur, connection_id, conn_data) ==
  LET c1 == IF conn_data.hasParameters
            THEN batch_insert_parameters(cur, connection_id, conn_data.parameters)
            ELSE cur
  IN IF c1.raised \/ ~conn_data.hasUsers THEN c1
     ELSE batch_insert_permissions(c1, connection_id, conn_data.users,
            IF conn_data.hasPermissions THEN conn_data.permissions
            ELSE default_permissions)

\* the update path with an UPDATE of the record's protocol before line 241
UpdateRecordProtocol(db, connection_id, conn_data) ==
  [db EXCEPT !.connection =
     {IF c.connection_id = connection_id
      THEN [c EXCEPT !.protocol = conn_data.protocol] ELSE c : c \in @}]

\* lines 219-230: the update path executes no statement on
\* guacamole_connection other than the SELECTs; line 230 prints
UpdateRecord(db, connection_id, conn_data) == db

create_or_update_connection(cur, conn_data) ==
  LET c1 == execute(cur, cur.db, FALSE, TRUE)
      existing == ByName(c1.db, conn_data.name)
  IN IF c1.raised THEN c1
     ELSE IF existing # {} THEN
       LET connection_id == FetchOne(existing).connection_id
           c2 == get_connection_state(c1)
       IN IF c2.raised \/ Unchanged(c2.db, connection_id, conn_data) THEN c2
          ELSE WriteDefinition(
                 [c2 EXCEPT !.db = UpdateRecord(@, connection_id, conn_data)],
                 connection_id, conn_data)
     ELSE
       LET connection_id == MaxOf({c.connection_id : c \in c1.db.connection}) + 1
           c2 == execute(c1,
                   [c1.db EXCEPT !.connection = @ \cup
                      {[connection_id |-> connection_id,
                        connection_name |-> conn_data.name,
                        protocol |-> conn_data.protocol]}],
                   TRUE, TRUE)
       IN WriteDefinition(c2, connection_id, conn_data)


(***************************************************************************)
(* scripts/taskfile/resolve-template-dir.py: resolve_template_dir.         *)
(* An argument is None or a string; the discovered-templates file is       *)
(* missing, exists and cannot be opened, is not JSON, is the JSON document *)
(* null, or is a JSON list of objects with the keys "name" and "path",     *)
(* each of them present or not.                                            *)
(***************************************************************************)
\* longest list of the discovered-templates file
MaxTemplates == 2

PyNone == [t |-> "NoneType", v |-> ""]
Raised(exception) == [t |-> exception, v |-> ""]

\* truth value of an argument: None and "" are false
Truthy(x) == x.t = "str" /\ x.v # ""

TemplateNames == {PyNone, S(""), S("a"), S("b")}
TemplateDirs == {PyNone, S(""), S("d")}

JsonObjects ==
  {e \in UNION {[K -> {"a", "b", "p1", "p2"}] : K \in SUBSET {"name", "path"}} :
     /\ "name" \in DOMAIN e => e["name"] \in {"a", "b"}
     /\ "path" \in DOMAIN e => e["path"] \in {"p1", "p2"}}

DiscoveredFiles ==
  {[kind |-> k, templates |-> <<>>] :
     k \in {"missing", "unreadable", "unparsable", "null"}}
  \cup {[kind |-> "list", templates |-> ts] :
          ts \in UNION {[1..n -> JsonObjects] : n \in 0..MaxTemplates}}

\* template.get('name')
get_name(template) ==
  IF "name" \in DOMAIN template THEN S(template["name"]) ELSE PyNone

RECURSIVE lookup(_, _, _)
\* lines 57-59 from the i-th entry on: the loop returns the path of the
\* first entry whose get('name') equals template_name, raises KeyError when
\* that entry has no 'path', or ends
lookup(templates, template_name, i) ==
  IF i > Len(templates) THEN [out |-> "end", value |-> PyNone]
  ELSE IF get_name(templates[i]) = template_name
  THEN IF "path" \in DOMAIN templates[i]
       THEN [out |-> "return", value |-> S(templates[i]["path"])]
       ELSE [out |-> "KeyError", value |-> PyNone]
  ELSE lookup(templates, template_name, i + 1)

\* lines 47-69; the value returned, or the exception that escapes
resolve_template_dir(template_name, template_dir, discovered) ==
  LET \* lines 52-62
      tried ==
        CASE discovered.kind = "missing"    -> [out |-> "end", value |-> PyNone]
          [] discovered.kind = "unreadable" -> [out |-> "IOError", value |-> PyNone]
          [] discovered.kind = "unparsable" -> [out |-> "JSONDecodeError", value |-> PyNone]
          [] discovered.kind = "null"       -> [out |-> "TypeError", value |-> PyNone]
          [] OTHER -> lookup(discovered.templates, template_name, 1)
  IN IF Truthy(template_dir) THEN template_dir
     ELSE IF tried.out = "return" THEN tried.value
     ELSE IF tried.out \notin {"end", "JSONDecodeError", "KeyError", "IOError"}
     THEN Raised(tried.out)
     ELSE IF Truthy(template_name)
     THEN S("packer-templates/" \o template_name.v)
     ELSE S("./")

\* no call of resolve_template_dir made
NotCalled ==
  [template_name |-> PyNone, template_dir |-> PyNone,
   discovered |-> [kind |-> "missing", templates |-> <<>>],
   called |-> FALSE, result |-> PyNone]

\* no pool function called on its own
NoPoolCall ==
  [op |-> "none",       \* the function called
   before |-> "none",   \* the pool handle when it was called
   out |-> 0,           \* the sessions out when it was called
   secret |-> "ok",     \* guacamole.properties: "ok", "nofile" or "nokey"
   reachable |-> TRUE,  \* the server accepts connections
   raised |-> FALSE,    \* the call raised
   read |-> FALSE,      \* the call called get_db_password
   created |-> 0]       \* assignments of line 75 made so far

(***************************************************************************)
(* The state of the process and of its environment.                        *)
(***************************************************************************)
VARIABLES
  pc,                 \* position of main()
  retry,              \* wait_for_guacamole: the loop variable i
  tick,               \* main loop: sleep steps taken of the current interval
  shutdown_requested, \* global flag set by signal_handler
  db_pool,            \* global pool handle: "none", "open", "closed"
  leased,             \* sessions taken from the pool and not put back
  state_cache,        \* global fingerprint cache: file -> digest or None
  exit_code,          \* exit status of the process, -1 while none is set
  files,              \* environment: file -> [doc, readable]
  db,                 \* environment: committed state of the store
  cycle,              \* process_connections in flight: its local variables
  obs,                \* record of what the current or last cycle did
  edits,              \* changes made to the files so far
  faults,             \* store errors injected so far
  resolved,           \* scripts/taskfile: a call of resolve_template_dir
  pool_call           \* the last call of a pool function made on its own

vars == <<pc, retry, tick, shutdown_requested, db_pool, leased, state_cache,
          exit_code, files, db, cycle, obs, edits, faults, resolved,
          pool_call>>

\* no cycle in flight
NoCycle ==
  [connections |-> <<>>, k |-> 0, view |-> EmptyStore, txn |-> "none",
   updated_count |-> 0, initial |-> FALSE]

\* before the first call of process_connections
NoObs ==
  [ran |-> FALSE,        \* process_connections was called
   first |-> FALSE,      \* the call is the one of line 369
   attempts |-> 0,       \* startup: calls of init_connection_pool
   backoffs |-> 0,       \* startup: time.sleep(5) calls
   edited |-> FALSE,     \* a file changed since the last call
   quiet |-> FALSE,      \* the call follows another with no file change between
   fpSame |-> FALSE,     \* at the call every file's digest was the cached one
   loaded |-> <<>>,      \* the definitions the call loaded
   acquired |-> FALSE,   \* the call took a session
   touched |-> FALSE,    \* the call executed a statement
   wrote |-> FALSE,      \* the call executed a writing statement
   errors |-> 0,         \* definitions whose reconciliation raised
   lastError |-> "none", \* kind of the last store error of the call
   committed |-> FALSE,  \* conn.commit() returned
   pre |-> EmptyStore,   \* committed store when the call began
   ret |-> -1,           \* value returned; -1 none yet, -2 an exception escaped
   sleeps |-> 0]         \* sleep steps taken after the flag was set

InitFiles ==
  {fs \in [Files -> [doc : {"A", "B", "C", "D", "E", "F", "G", "absent", "bad", "empty"},
                     readable : {TRUE}]] :
     \A f \in Files : fs[f].doc \in DocsOf(f)}

Init ==
  /\ pc = "starting"
  /\ retry = 0
  /\ tick = 0
  /\ shutdown_requested = FALSE
  /\ db_pool = "none"
  /\ leased = 0
  /\ state_cache = [f \in Files |-> None]
  /\ exit_code = -1
  /\ files \in InitFiles
  /\ db = EmptyStore
  /\ cycle = NoCycle
  /\ obs = NoObs
  /\ edits = 0
  /\ faults = 0
  /\ resolved = NotCalled
  /\ pool_call = NoPoolCall

(***************************************************************************)
(* signal_handler                                                          *)
(***************************************************************************)
signal_handler ==
  /\ pc # "stopped"
  /\ ~shutdown_requested
  /\ shutdown_requested' = TRUE
  /\ UNCHANGED <<resolved, pool_call, pc, retry, tick, db_pool, leased, state_cache, exit_code,
                 files, db, cycle, obs, edits, faults>>

\* signal_handler without the global statement of line 43: the handler binds
\* a local name and main reads False for ever
ShutdownSeenNever(flag) == FALSE

\* lines 373, 378 and 382: the value main reads from the global the handler
\* sets
ShutdownSeen(flag) == flag

(***************************************************************************)
(* The environment rewrites, removes or protects a definition file.  The   *)
(* files are read by process_connections at its start only, and the        *)
(* process spends its time in time.sleep(1): a change made at any other    *)
(* moment is seen by the next cycle exactly as one made during the first   *)
(* sleep of the interval.                                                  *)
(***************************************************************************)
Idle == pc = "sleep" /\ tick = 0

EditFile ==
  /\ Idle
  /\ edits < MaxEdits
  /\ \E f \in Files :
       \E file \in [doc : DocsOf(f), readable : BOOLEAN] :
         /\ file # files[f]
         /\ file.doc = "absent" => file.readable
         /\ ~file.readable => file.doc = files[f].doc
         /\ files' = [files EXCEPT ![f] = file]
  /\ edits' = edits + 1
  /\ obs' = [obs EXCEPT !.edited = TRUE]
  /\ UNCHANGED <<resolved, pool_call, pc, retry, tick, shutdown_requested, db_pool, leased,
                 state_cache, exit_code, db, cycle, faults>>

(***************************************************************************)
(* main, lines 353-363, and wait_for_guacamole                             *)
(***************************************************************************)
Start ==
  /\ pc = "starting"
  /\ pc' = "waiting"
  /\ retry' = 0
  /\ UNCHANGED <<resolved, pool_call, tick, shutdown_requested, db_pool, leased, state_cache,
                 exit_code, files, db, cycle, obs, edits, faults>>

\* get_db_password: the password, or an exception
get_db_password(secret) == secret = "ok"

\* init_connection_pool without the test of line 69
init_connection_pool_unguarded(pool, secret, reachable) ==
  IF ~get_db_password(secret) THEN [pool |-> pool, raised |-> TRUE, read |-> TRUE]
  ELSE IF ~reachable THEN [pool |-> pool, raised |-> TRUE, read |-> TRUE]
  ELSE [pool |-> "open", raised |-> FALSE, read |-> TRUE]

\* init_connection_pool: the pool handle after the call, whether it raised
\* and whether get_db_password was called.  A handle that is set, open or
\* closed, is true at line 69.
init_connection_pool(pool, secret, reachable) ==
  IF pool # "none" THEN [pool |-> pool, raised |-> FALSE, read |-> FALSE]
  ELSE IF ~get_db_password(secret) THEN [pool |-> pool, raised |-> TRUE, read |-> TRUE]
  ELSE IF ~reachable THEN [pool |-> pool, raised |-> TRUE, read |-> TRUE]
  ELSE [pool |-> "open", raised |-> FALSE, read |-> TRUE]

\* ThreadedConnectionPool(minconn=1, maxconn=5, ...)
maxconn == 5

\* get_db_connection with n sessions out: lines 91-93.  getconn raises
\* PoolError on a closed pool and when maxconn sessions are out.
get_db_connection(pool, n, secret, reachable) ==
  LET r == IF pool = "none" THEN init_connection_pool(pool, secret, reachable)
           ELSE [pool |-> pool, raised |-> FALSE, read |-> FALSE]
  IN IF r.raised THEN [pool |-> r.pool, leased |-> n, raised |-> TRUE, read |-> r.read]
     ELSE IF r.pool = "closed" \/ n >= maxconn
     THEN [pool |-> r.pool, leased |-> n, raised |-> TRUE, read |-> r.read]
     ELSE [pool |-> r.pool, leased |-> n + 1, raised |-> FALSE, read |-> r.read]

\* the test of line 340 off by one: a backoff follows the last attempt too
RetryAgainOffByOne(i) == i < max_retries

\* line 340: sleep and try again, or give up
RetryAgain(i) == i < max_retries - 1

\* line 369 left out: main enters the loop of line 373 at once
InitialProvisionSkipped == "loop"

\* main, lines 362-369: wait_for_guacamole returned True, and the next
\* statement is the call process_connections() of line 369
InitialProvision == "initial"

\* one iteration of the loop of lines 334-345; line 346 when the loop ends
WaitAttempt ==
  /\ pc = "waiting"
  /\ IF retry >= max_retries
     THEN \* line 346: return False; main: sys.exit(1)
          /\ pc' = "stopped"
          /\ exit_code' = 1
          /\ UNCHANGED <<retry, db_pool, obs>>
     ELSE
       \E secret \in {"ok", "nofile", "nokey"}, reachable \in BOOLEAN :
         LET r == init_connection_pool(db_pool, secret, reachable)
         IN /\ db_pool' = r.pool
            /\ IF ~r.raised
               THEN \* return True: the loop variable goes out of scope
                    /\ pc' = InitialProvision
                    /\ retry' = 0
                    /\ obs' = [obs EXCEPT !.attempts = @ + 1]
                    /\ UNCHANGED exit_code
               ELSE IF RetryAgain(retry)
               THEN \* time.sleep(5), next iteration
                    /\ pc' = "waiting"
                    /\ retry' = retry + 1
                    /\ obs' = [obs EXCEPT !.attempts = @ + 1, !.backoffs = @ + 1]
                    /\ UNCHANGED exit_code
               ELSE \* return False; main: sys.exit(1)
                    /\ pc' = "stopped"
                    /\ exit_code' = 1
                    /\ obs' = [obs EXCEPT !.attempts = @ + 1]
                    /\ UNCHANGED retry
  /\ UNCHANGED <<resolved, pool_call, tick, shutdown_requested, leased, state_cache, files, db,
                 cycle, edits, faults>>

(***************************************************************************)
(* process_connections, lines 256-297: change detection, loading and the   *)
(* acquisition of the session.                                             *)
(***************************************************************************)
\* glob.glob(CONNECTIONS_DIR/*/connection.yaml)
connection_files(fs) == SelectSeq(FileOrder, LAMBDA f : fs[f].doc # "absent")

Range(seq) == {seq[j] : j \in DOMAIN seq}

\* line 266 without the comparison with the cache
ChangedFilesNoCache(cache, fs) ==
  {f \in Range(connection_files(fs)) : compute_file_hash(fs[f]) # None}

\* lines 264-268: the files whose digest is computed and differs from the cache
ChangedFiles(cache, fs) ==
  {f \in Range(connection_files(fs)) :
     /\ compute_file_hash(fs[f]) # None
     /\ cache[f] # compute_file_hash(fs[f])}

\* line 268 left out: the cache is never written
UpdateCacheDropped(cache, fs) == cache

\* line 268: state_cache[conn_file] = current_hash
UpdateCache(cache, fs) ==
  [f \in Files |-> IF f \in ChangedFiles(cache, fs)
                   THEN compute_file_hash(fs[f]) ELSE cache[f]]

\* lines 276-285: a file that cannot be opened or parsed, or that loads as
\* None, is left out
Loadable(file) == file.readable /\ IsDefinition(file.doc)

RECURSIVE LoadFromAborting(_, _, _)
\* lines 276-285 giving up at the first file that yields no definition
LoadFromAborting(paths, fs, j) ==
  IF j > Len(paths) \/ ~Loadable(fs[paths[j]]) THEN <<>>
  ELSE <<yaml_safe_load(fs[paths[j]].doc)>> \o LoadFromAborting(paths, fs, j + 1)

RECURSIVE LoadFrom(_, _, _)
LoadFrom(paths, fs, j) ==
  IF j > Len(paths) THEN <<>>
  ELSE (IF Loadable(fs[paths[j]]) THEN <<yaml_safe_load(fs[paths[j]].doc)>> ELSE <<>>)
       \o LoadFrom(paths, fs, j + 1)

LoadConnections(fs) == LoadFrom(connection_files(fs), fs, 1)

\* the record of a call of process_connections that begins now
BeginObs(connections) ==
  [obs EXCEPT !.ran = TRUE, !.edited = FALSE,
              !.first = (pc = "initial"),
              !.attempts = 0, !.backoffs = 0,
              !.quiet = obs.ran /\ ~obs.edited,
              !.fpSame = \A f \in Range(connection_files(files)) :
                            state_cache[f] = Sha256(files[f].doc),
              !.loaded = connections,
              !.acquired = FALSE, !.touched = FALSE, !.wrote = FALSE,
              !.errors = 0, !.lastError = "none", !.committed = FALSE,
              !.pre = db, !.ret = -1]

\* lines 316 and 323 without the test of conn: None.rollback() raises inside
\* the handler and the exception leaves process_connections
AcquisitionHandlerRaisesOnNone == TRUE

\* lines 315-324 after get_db_connection raised: conn is None, so the tests
\* of lines 316 and 323 skip rollback and return_db_connection, and line 321
\* returns 0
AcquisitionHandlerRaises == FALSE

BeginCycle ==
  /\ \/ pc = "initial"
     \/ pc = "after_sleep" /\ ~ShutdownSeen(shutdown_requested)
  /\ LET paths == connection_files(files)
         changes_detected == ChangedFiles(state_cache, files) # {}
         connections == LoadConnections(files)
     IN IF paths = <<>>
        THEN \* line 260
             /\ pc' = "loop"
             /\ obs' = [BeginObs(<<>>) EXCEPT !.ret = 0]
             /\ UNCHANGED <<state_cache, leased, cycle, faults, exit_code>>
        ELSE IF ~changes_detected
        THEN \* line 272
             /\ pc' = "loop"
             /\ obs' = [BeginObs(<<>>) EXCEPT !.ret = 0]
             /\ UNCHANGED <<state_cache, leased, cycle, faults, exit_code>>
        ELSE IF connections = <<>>
        THEN \* line 289
             /\ pc' = "loop"
             /\ state_cache' = UpdateCache(state_cache, files)
             /\ obs' = [BeginObs(<<>>) EXCEPT !.ret = 0]
             /\ UNCHANGED <<leased, cycle, faults, exit_code>>
        ELSE /\ state_cache' = UpdateCache(state_cache, files)
             /\ \/ \* get_db_connection raises: lines 315-321 with conn = None
                   /\ faults < MaxFaults
                   /\ faults' = faults + 1
                   /\ obs' = [BeginObs(connections) EXCEPT
                                !.ret = IF AcquisitionHandlerRaises THEN -2 ELSE 0,
                                !.lastError = "pool"]
                   /\ IF ~AcquisitionHandlerRaises
                      THEN pc' = "loop" /\ UNCHANGED exit_code
                      ELSE IF pc = "initial"
                      THEN pc' = "stopped" /\ exit_code' = 1
                      ELSE pc' = "finally" /\ exit_code' = 1
                   /\ UNCHANGED <<leased, cycle>>
                \/ /\ pc' = "reconciling"
                   /\ leased' = leased + 1
                   /\ cycle' = [connections |-> connections, k |-> 1, view |-> db,
                                txn |-> "ok", updated_count |-> 0,
                                initial |-> (pc = "initial")]
                   /\ obs' = [BeginObs(connections) EXCEPT !.acquired = TRUE]
                   /\ UNCHANGED <<faults, exit_code>>
  /\ UNCHANGED <<resolved, pool_call, retry, tick, shutdown_requested, db_pool, files, db, edits>>

(***************************************************************************)
(* process_connections, lines 300-307: one iteration of the loop over the  *)
(* loaded definitions.  A store error is one of                            *)
(*   "server"  the server rejects a statement: the transaction is aborted, *)
(*             every later statement fails, and COMMIT rolls back;         *)
(*   "client"  the driver raises before the statement reaches the server   *)
(*             (a value it cannot adapt): the transaction stays usable;    *)
(*   "lost"    the connection is lost: every later call on it raises.      *)
(***************************************************************************)
ErrKinds == {"server", "client", "lost"}

\* the transaction after a statement of it raised an error of this kind
AfterError(txn, kind) ==
  IF txn # "ok" THEN txn
  ELSE IF kind = "client" THEN "ok"
  ELSE IF kind = "server" THEN "aborted"
  ELSE "lost"

\* the loop of line 300 with the test of the loop of line 377 added: it
\* stops at the termination request
MoreDefinitionsUnlessStopped(c, flag) == c.k <= Len(c.connections) /\ ~flag

\* line 300, for conn_data in connections: another definition follows.  The
\* loop does not read shutdown_requested.
MoreDefinitions(c, flag) == c.k <= Len(c.connections)

ProcessDef ==
  /\ pc = "reconciling"
  /\ MoreDefinitions(cycle, shutdown_requested)
  /\ \E fail \in 0..MaxStmts, kind \in ErrKinds :
       /\ fail = 0 => kind = "client"
       /\ fail # 0 => faults < MaxFaults /\ cycle.txn = "ok"
       /\ LET conn_data == cycle.connections[cycle.k]
              cur == IF cycle.txn = "ok"
                     THEN create_or_update_connection(
                            Cursor(cycle.view, fail, kind), conn_data)
                     \* the first statement fails on an aborted or lost transaction
                     ELSE execute(Cursor(cycle.view, 1, cycle.txn), cycle.view,
                                  FALSE, TRUE)
          IN /\ fail # 0 => cur.raised
             /\ faults' = IF fail # 0 THEN faults + 1 ELSE faults
             /\ cycle' = [cycle EXCEPT
                            !.k = @ + 1,
                            \* the writes of an aborted or lost transaction are void
                            !.view = IF cur.raised /\ AfterError(cycle.txn, kind) # "ok"
                                     THEN @ ELSE cur.db,
                            !.txn = IF cur.raised THEN AfterError(@, kind) ELSE @,
                            !.updated_count = IF cur.raised THEN @ ELSE @ + 1]
             /\ obs' = [obs EXCEPT
                          !.touched = @ \/ cur.n > 0,
                          !.wrote = @ \/ cur.writes > 0,
                          !.errors = IF cur.raised THEN @ + 1 ELSE @,
                          !.lastError = IF ~cur.raised THEN @
                                        ELSE IF cycle.txn = "ok" THEN kind
                                        ELSE cycle.txn]
  /\ UNCHANGED <<resolved, pool_call, pc, retry, tick, shutdown_requested, db_pool, leased,
                 state_cache, exit_code, files, db, edits>>

(***************************************************************************)
(* process_connections, lines 309-324: commit, the handler of line 315     *)
(* and the finally clause.                                                 *)
(***************************************************************************)
\* conn.commit(): "committed", "discarded" (COMMIT of an aborted transaction
\* rolls back and returns) or "raised"
commit(txn, fault) ==
  IF txn = "lost" \/ fault # "none" THEN "raised"
  ELSE IF txn = "aborted" THEN "discarded"
  ELSE "committed"

\* conn.rollback() raises on a connection that is lost
rollback_raises(txn, fault) == txn = "lost" \/ fault = "lost"

\* line 98 with the test of the pool inverted: nothing is put back
return_db_connection_inverted(pool, n) == IF pool = "none" /\ n > 0 THEN n - 1 ELSE n

\* return_db_connection: the number of leased sessions after the call
return_db_connection(pool, n) == IF pool # "none" /\ n > 0 THEN n - 1 ELSE n

FinishCycle ==
  /\ pc = "reconciling"
  /\ ~MoreDefinitions(cycle, shutdown_requested)
  /\ \E fault \in {"none", "server", "lost"} :
       /\ fault # "none" => faults < MaxFaults /\ cycle.txn = "ok"
       /\ faults' = IF fault # "none" THEN faults + 1 ELSE faults
       /\ LET result == commit(cycle.txn, fault)
              escaped == result = "raised" /\ rollback_raises(cycle.txn, fault)
          IN /\ db' = IF result = "committed" THEN cycle.view ELSE db
             /\ obs' = [obs EXCEPT
                          !.touched = TRUE,
                          !.committed = result # "raised",
                          !.lastError = IF fault # "none" THEN fault ELSE @,
                          !.ret = IF escaped THEN -2
                                  ELSE IF result = "raised" THEN 0
                                  ELSE cycle.updated_count]
             /\ IF ~escaped
                THEN pc' = "loop" /\ UNCHANGED exit_code
                ELSE IF cycle.initial
                THEN \* line 369 is outside the try of line 372
                     pc' = "stopped" /\ exit_code' = 1
                ELSE \* line 391: sys.exit(1), then the finally of line 396
                     pc' = "finally" /\ exit_code' = 1
  /\ leased' = return_db_connection(db_pool, leased)
  /\ cycle' = NoCycle
  /\ UNCHANGED <<resolved, pool_call, retry, tick, shutdown_requested, db_pool, state_cache, files,
                 edits>>

(***************************************************************************)
(* main, lines 372-400: the loop and the shutdown.                         *)
(***************************************************************************)
\* line 373
LoopCheck ==
  /\ pc = "loop"
  /\ IF ShutdownSeen(shutdown_requested) THEN pc' = "finally" /\ UNCHANGED tick
     ELSE pc' = "sleep_check" /\ tick' = 0
  /\ UNCHANGED <<resolved, pool_call, retry, shutdown_requested, db_pool, leased, state_cache,
                 exit_code, files, db, cycle, obs, edits, faults>>

\* lines 377-379
SleepCheck ==
  /\ pc = "sleep_check"
  /\ IF tick >= POLL_INTERVAL \/ ShutdownSeen(shutdown_requested)
     THEN pc' = "after_sleep" /\ tick' = 0
     ELSE pc' = "sleep" /\ UNCHANGED tick
  /\ UNCHANGED <<resolved, pool_call, retry, shutdown_requested, db_pool, leased, state_cache,
                 exit_code, files, db, cycle, obs, edits, faults>>

\* line 380
Sleep ==
  /\ pc = "sleep"
  /\ tick' = tick + 1
  /\ pc' = "sleep_check"
  /\ obs' = [obs EXCEPT !.sleeps = IF shutdown_requested /\ @ < MaxSleeps
                                   THEN @ + 1 ELSE @]
  /\ UNCHANGED <<resolved, pool_call, retry, shutdown_requested, db_pool, leased, state_cache,
                 exit_code, files, db, cycle, edits, faults>>

\* lines 382-383
Break ==
  /\ pc = "after_sleep"
  /\ ShutdownSeen(shutdown_requested)
  /\ pc' = "finally"
  /\ UNCHANGED <<resolved, pool_call, retry, tick, shutdown_requested, db_pool, leased, state_cache,
                 exit_code, files, db, cycle, obs, edits, faults>>

\* lines 396-400
Finally ==
  /\ pc = "finally"
  /\ db_pool' = IF db_pool = "open" THEN "closed" ELSE db_pool
  /\ exit_code' = IF exit_code = -1 THEN 0 ELSE exit_code
  /\ pc' = "stopped"
  /\ UNCHANGED <<resolved, pool_call, retry, tick, shutdown_requested, leased, state_cache, files,
                 db, cycle, obs, edits, faults>>

Next ==
  \/ signal_handler
  \/ EditFile
  \/ Start
  \/ WaitAttempt
  \/ BeginCycle
  \/ ProcessDef
  \/ FinishCycle
  \/ LoopCheck
  \/ SleepCheck
  \/ Sleep
  \/ Break
  \/ Finally

Spec == Init /\ [][Next]_vars

(***************************************************************************)
(* The process started again (a container restart): the globals are those *)
(* of a new process, state_cache is empty, and the store is the one an     *)
(* earlier run left: here the store its first cycle committed, without     *)
(* error, for the files as they are.                                       *)
(***************************************************************************)
RECURSIVE Reconciled(_, _, _)
\* lines 300-309 without error from the j-th definition on
Reconciled(store, connections, j) ==
  IF j > Len(connections) THEN store
  ELSE Reconciled(
         create_or_update_connection(Cursor(store, 0, "client"), connections[j]).db,
         connections, j + 1)

RestartInit ==
  /\ pc = "starting"
  /\ retry = 0
  /\ tick = 0
  /\ shutdown_requested = FALSE
  /\ db_pool = "none"
  /\ leased = 0
  /\ state_cache = [f \in Files |-> None]
  /\ exit_code = -1
  /\ files \in InitFiles
  /\ db = Reconciled(EmptyStore, LoadConnections(files), 1)
  /\ cycle = NoCycle
  /\ obs = NoObs
  /\ edits = 0
  /\ faults = 0
  /\ resolved = NotCalled
  /\ pool_call = NoPoolCall

RestartSpec == RestartInit /\ [][Next]_vars

\* a step of main other than the reconciliation of a definition
MainStep ==
  \/ Start
  \/ WaitAttempt
  \/ BeginCycle
  \/ FinishCycle
  \/ LoopCheck
  \/ SleepCheck
  \/ Sleep
  \/ Break
  \/ Finally

\* the loop of line 300 is at a definition: ProcessDef is enabled
AtDefinition == pc = "reconciling" /\ MoreDefinitions(cycle, shutdown_requested)

\* The main thread is never suspended for ever, and every store operation
\* and every time.sleep returns: weak fairness of the steps of main.  For
\* ProcessDef it is written with the enabling condition: ProcessDef is
\* enabled exactly at AtDefinition and each step of it moves cycle.k towards
\* the end of the list, so WF_vars(ProcessDef) says the loop of line 300 is
\* not at a definition for ever.
FairSpec == Spec /\ WF_vars(MainStep) /\ []<>~AtDefinition

(***************************************************************************)
(* scripts/taskfile/resolve-template-dir.py run on its own: one call of    *)
(* resolve_template_dir with any arguments and any discovered-templates    *)
(* file; the provisioner is not running.                                   *)
(***************************************************************************)
ResolveInit ==
  /\ pc = "starting"
  /\ retry = 0
  /\ tick = 0
  /\ shutdown_requested = FALSE
  /\ db_pool = "none"
  /\ leased = 0
  /\ state_cache = [f \in Files |-> None]
  /\ exit_code = -1
  /\ files = [f \in Files |->
                [doc |-> IF f = "f1" THEN "empty" ELSE "absent", readable |-> TRUE]]
  /\ db = EmptyStore
  /\ cycle = NoCycle
  /\ obs = NoObs
  /\ edits = 0
  /\ faults = 0
  /\ resolved \in {[NotCalled EXCEPT !.template_name = n, !.template_dir = d,
                                     !.discovered = f] :
                     n \in TemplateNames, d \in TemplateDirs, f \in DiscoveredFiles}
  /\ pool_call = NoPoolCall

Resolve ==
  /\ ~resolved.called
  /\ resolved' = [resolved EXCEPT
                    !.called = TRUE,
                    !.result = resolve_template_dir(resolved.template_name,
                                                    resolved.template_dir,
                                                    resolved.discovered)]
  /\ UNCHANGED <<pc, retry, tick, shutdown_requested, db_pool, leased, state_cache,
                 exit_code, files, db, cycle, obs, edits, faults, pool_call>>

ResolveSpec == ResolveInit /\ [][Resolve]_vars

(***************************************************************************)
(* Two directories of CONNECTIONS_DIR hold definitions of one connection   *)
(* name: the second file is a copy of a document of the first directory's  *)
(* catalogue, or the document G.                                           *)
(***************************************************************************)
SameNameFiles ==
  {fs \in [Files -> [doc : {"A", "B", "C", "D", "E", "G", "empty"},
                     readable : {TRUE}]] :
     /\ fs["f1"].doc \in DocsOf("f1")
     /\ fs["f2"].doc \in {"D", "E", "G"}}

SameNameInit ==
  /\ pc = "starting"
  /\ retry = 0
  /\ tick = 0
  /\ shutdown_requested = FALSE
  /\ db_pool = "none"
  /\ leased = 0
  /\ state_cache = [f \in Files |-> None]
  /\ exit_code = -1
  /\ files \in SameNameFiles
  /\ db = EmptyStore
  /\ cycle = NoCycle
  /\ obs = NoObs
  /\ edits = 0
  /\ faults = 0
  /\ resolved = NotCalled
  /\ pool_call = NoPoolCall

SameNameSpec == SameNameInit /\ [][Next]_vars

(***************************************************************************)
(* The pool functions called on their own, in any order, in a new process: *)
(* init_connection_pool, get_db_connection, return_db_connection and the   *)
(* closeall of line 399.  main makes its calls in one of these orders.     *)
(***************************************************************************)
PoolInit ==
  /\ pc = "starting"
  /\ retry = 0
  /\ tick = 0
  /\ shutdown_requested = FALSE
  /\ db_pool = "none"
  /\ leased = 0
  /\ state_cache = [f \in Files |-> None]
  /\ exit_code = -1
  /\ files = [f \in Files |->
                [doc |-> IF f = "f1" THEN "empty" ELSE "absent", readable |-> TRUE]]
  /\ db = EmptyStore
  /\ cycle = NoCycle
  /\ obs = NoObs
  /\ edits = 0
  /\ faults = 0
  /\ resolved = NotCalled
  /\ pool_call = NoPoolCall

\* the record of a call
PoolCalled(op, secret, reachable, r) ==
  [op |-> op, before |-> db_pool, out |-> leased, secret |-> secret,
   reachable |-> reachable, raised |-> r.raised, read |-> r.read,
   created |-> IF r.pool = "open" /\ r.read THEN pool_call.created + 1
               ELSE pool_call.created]

CallInit ==
  /\ \E secret \in {"ok", "nofile", "nokey"}, reachable \in BOOLEAN :
       LET r == init_connection_pool(db_pool, secret, reachable)
       IN /\ db_pool' = r.pool
          /\ pool_call' = PoolCalled("init_connection_pool", secret, reachable, r)
  /\ UNCHANGED <<pc, retry, tick, shutdown_requested, leased, state_cache,
                 exit_code, files, db, cycle, obs, edits, faults, resolved>>

CallGet ==
  /\ \E secret \in {"ok", "nofile", "nokey"}, reachable \in BOOLEAN :
       LET r == get_db_connection(db_pool, leased, secret, reachable)
       IN /\ db_pool' = r.pool
          /\ leased' = r.leased
          /\ pool_call' = PoolCalled("get_db_connection", secret, reachable, r)
  /\ UNCHANGED <<pc, retry, tick, shutdown_requested, state_cache,
                 exit_code, files, db, cycle, obs, edits, faults, resolved>>

CallReturn ==
  /\ leased > 0
  /\ db_pool = "open"
  /\ leased' = return_db_connection(db_pool, leased)
  /\ pool_call' = PoolCalled("return_db_connection", "ok", TRUE,
                             [pool |-> db_pool, raised |-> FALSE, read |-> FALSE])
  /\ UNCHANGED <<pc, retry, tick, shutdown_requested, db_pool, state_cache,
                 exit_code, files, db, cycle, obs, edits, faults, resolved>>

\* lines 398-399
CallCloseall ==
  /\ db_pool = "open"
  /\ db_pool' = "closed"
  /\ leased' = 0
  /\ pool_call' = PoolCalled("closeall", "ok", TRUE,
                             [pool |-> "closed", raised |-> FALSE, read |-> FALSE])
  /\ UNCHANGED <<pc, retry, tick, shutdown_requested, state_cache,
                 exit_code, files, db, cycle, obs, edits, faults, resolved>>

PoolNext ==
  \/ CallInit
  \/ CallGet
  \/ CallReturn
  \/ CallCloseall

PoolSpec == PoolInit /\ [][PoolNext]_vars

TypeOK ==
  /\ pc \in {"starting", "waiting", "initial", "reconciling", "loop",
             "sleep_check", "sleep", "after_sleep", "finally", "stopped"}
  /\ leased \in 0..1
  /\ faults \in 0..MaxFaults
  /\ edits \in 0..MaxEdits


(***************************************************************************)
(* Vocabulary of the properties.                                           *)
(***************************************************************************)
\* process_connections was called and is not in flight
Finished == obs.ran /\ pc # "reconciling"

\* the last call took a session, raised for no definition, and committed
CommittedClean == Finished /\ obs.acquired /\ obs.committed /\ obs.errors = 0

\* the definition's parameter set: the empty set without a parameters key
ParametersOf(d) == IF d.hasParameters THEN d.parameters ELSE EmptyDict

\* the definition's parameter set as the store's text column holds it
TextOf(parameters) == [name \in DOMAIN parameters |-> str(parameters[name])]

\* the definition's permissions, READ without a permissions key
PermissionsOf(d) == IF d.hasPermissions THEN d.permissions ELSE <<"READ">>

\* no other loaded definition has the name of the j-th
UniqueName(loaded, j) ==
  \A i \in DOMAIN loaded : loaded[i].name = loaded[j].name => i = j

\* the store matches the definition's parameters
ParametersConverged(store, d) ==
  \E c \in store.connection :
    /\ c.connection_name = d.name
    /\ StoredParameters(store, c.connection_id) = TextOf(ParametersOf(d))

\* every listed user holds every listed permission on the connection
GrantsConverged(store, d) ==
  \E c \in store.connection :
    /\ c.connection_name = d.name
    /\ \A u \in Range(d.users), p \in Range(PermissionsOf(d)) :
         \E e \in store.entity :
           /\ e.name = u
           /\ BagIn([entity_id |-> e.entity_id, connection_id |-> c.connection_id,
                     permission |-> p], store.permission)

\* the definition is created or updated, not skipped, against this store
CreatedOrUpdated(store, d) ==
  \/ ByName(store, d.name) = {}
  \/ ~Unchanged(store, FetchOne(ByName(store, d.name)).connection_id, d)

(***************************************************************************)
(* C1  Atomicity of a cycle: when create_or_update_connection raised a     *)
(* store error for a definition of the cycle, the committed store after    *)
(* the cycle equals the committed store before it.                         *)
(***************************************************************************)
C1_Atomicity ==
  (Finished /\ obs.acquired /\ obs.errors > 0) => db = obs.pre

(***************************************************************************)
(* C2  Convergence: after a cycle that commits, every loaded definition    *)
(* has a connection record of its name with its parameter set, and every   *)
(* listed user holds every listed permission, also when the record         *)
(* existed before with equal parameters.  Stated for the definitions with  *)
(* a parameter set that is not empty (C6 states the empty one) and for the *)
(* runs in which no store error occurred.                                  *)
(***************************************************************************)
C2_Convergence ==
  (CommittedClean /\ faults = 0) =>
    \A j \in DOMAIN obs.loaded :
      (UniqueName(obs.loaded, j) /\ DOMAIN ParametersOf(obs.loaded[j]) # {}) =>
        /\ ParametersConverged(db, obs.loaded[j])
        /\ GrantsConverged(db, obs.loaded[j])

(***************************************************************************)
(* C3  Idempotence: a call of process_connections that follows another     *)
(* with no definition file changed in between executes no writing          *)
(* statement and leaves the store as the first call left it.               *)
(***************************************************************************)
C3_Idempotence ==
  obs.quiet => /\ ~obs.wrote
               /\ db = obs.pre
               /\ pc # "reconciling"

C3_Witness ==
  /\ obs.quiet
  /\ obs.ret = 0
  /\ db.connection # {}
  /\ pc = "loop"

(***************************************************************************)
(* C4  Change detection: a cycle in which every current file's digest      *)
(* equals the cached digest takes no session and executes no statement.    *)
(***************************************************************************)
C4_ChangeDetection ==
  (obs.ran /\ obs.fpSame) => /\ ~obs.acquired
                             /\ ~obs.touched
                             /\ leased = 0
                             /\ obs.ret = 0

C4_Witness ==
  /\ obs.ran
  /\ obs.fpSame
  /\ ~obs.quiet
  /\ \E f \in Files : files[f].doc # "absent" /\ state_cache[f] # None
  /\ obs.ret = 0

(***************************************************************************)
(* C5  Parameter full-replace: the connection of a created or updated      *)
(* definition holds exactly the definition's parameter set after the       *)
(* cycle, and the parameters of the connections no definition names are    *)
(* as before.                                                              *)
(***************************************************************************)
C5_FullReplace ==
  CommittedClean =>
    /\ \A j \in DOMAIN obs.loaded :
         (UniqueName(obs.loaded, j) /\ CreatedOrUpdated(obs.pre, obs.loaded[j]))
            => ParametersConverged(db, obs.loaded[j])
    /\ \A c \in obs.pre.connection :
         (\A j \in DOMAIN obs.loaded : obs.loaded[j].name # c.connection_name)
            => StoredParameters(db, c.connection_id)
                 = StoredParameters(obs.pre, c.connection_id)

(***************************************************************************)
(* C6  A definition with no parameters key or an empty mapping, reconciled *)
(* against an existing connection that has stored parameters, leaves the   *)
(* connection without parameter rows.                                      *)
(***************************************************************************)
C6_EmptyParametersDeleteAll ==
  CommittedClean =>
    \A j \in DOMAIN obs.loaded :
      \A c \in ByName(obs.pre, obs.loaded[j].name) :
        (/\ UniqueName(obs.loaded, j)
         /\ DOMAIN ParametersOf(obs.loaded[j]) = {}
         /\ StoredParameters(obs.pre, c.connection_id) # EmptyDict)
           => StoredParameters(db, c.connection_id) = EmptyDict

(***************************************************************************)
(* C7  A cycle in which a definition hit a store error returns zero.       *)
(***************************************************************************)
C7_ErrorReportsZero ==
  (Finished /\ obs.errors > 0 /\ obs.ret >= 0) => obs.ret = 0

(***************************************************************************)
(* C8  Session release: no session is leased unless a cycle is in flight.  *)
(***************************************************************************)
C8_SessionReleased ==
  /\ pc # "reconciling" => leased = 0
  /\ pc = "reconciling" => leased = 1

\* a cycle whose commit raised has returned, its session put back
C8_Witness ==
  /\ Finished
  /\ obs.acquired
  /\ ~obs.committed
  /\ obs.lastError \in {"server", "lost"}
  /\ leased = 0

(***************************************************************************)
(* C9  A store error raised during a cycle never terminates the process:   *)
(* no exception escapes process_connections and the process does not exit  *)
(* with a failure status once the cycles began.                            *)
(***************************************************************************)
C9_CycleErrorsRecoverable ==
  /\ obs.ret # -2
  /\ obs.ran => exit_code # 1

(***************************************************************************)
(* C10  Bounded startup retry: at most max_retries attempts, none after    *)
(* the first success, a backoff between two attempts only, and on          *)
(* exhaustion an exit with status 1 before any cycle and before the loop.  *)
(***************************************************************************)
C10_BoundedStartupRetry ==
  /\ obs.attempts <= max_retries
  /\ pc = "waiting" => /\ db_pool = "none"
                       /\ obs.attempts = retry
                       /\ obs.backoffs = obs.attempts
  /\ pc = "initial" => /\ db_pool = "open"
                       /\ obs.attempts >= 1
                       /\ obs.backoffs = obs.attempts - 1
  /\ db_pool = "none" =>
       /\ ~obs.ran
       /\ pc \in {"starting", "waiting", "stopped"}
       /\ pc = "stopped" => /\ exit_code = 1
                            /\ obs.attempts = max_retries
                            /\ obs.backoffs = max_retries - 1

\* every attempt failed and the process has exited
C10_Witness ==
  /\ pc = "stopped"
  /\ db_pool = "none"
  /\ obs.attempts = max_retries
  /\ exit_code = 1

(***************************************************************************)
(* C11: the initial cycle.  No cycle runs before the pool is initialized;  *)
(* the loop and its interval wait are entered only after the call of line  *)
(* 369 was made; and that call loads every definition that can be loaded   *)
(* and, when there is one, takes a session to reconcile them (or reports   *)
(* the failure of the acquisition): the cache is empty, so no file that    *)
(* can be read is taken as unchanged.                                      *)
(***************************************************************************)
Waiting == pc \in {"loop", "sleep_check", "sleep", "after_sleep"}

C11_InitialCycle ==
  /\ pc \in {"starting", "waiting", "initial"} => ~obs.ran
  /\ Waiting => obs.ran
  /\ pc = "reconciling" /\ cycle.initial => obs.first
  /\ (obs.ran /\ obs.first /\ ~obs.edited) =>
       /\ \A f \in Range(connection_files(files)) :
            Loadable(files[f]) => yaml_safe_load(files[f].doc) \in Range(obs.loaded)
       /\ obs.loaded # <<>> => obs.acquired \/ obs.lastError = "pool"

C11_Witness ==
  /\ pc = "sleep"
  /\ obs.first
  /\ obs.acquired
  /\ obs.committed
  /\ Len(obs.loaded) = 2

(***************************************************************************)
(* C12: a termination request moves the controller to stopping from any    *)
(* lifecycle state: once shutdown_requested is set and no cycle is in      *)
(* flight, no call of process_connections is made any more, the call of    *)
(* line 369 included.                                                      *)
(***************************************************************************)
\* a step that calls process_connections (line 369 or line 389)
CycleStarts ==
  /\ pc \in {"initial", "after_sleep"}
  /\ pc' \in {"loop", "reconciling"}

C12_TerminationStopsCycles ==
  [][shutdown_requested /\ pc # "reconciling" => ~CycleStarts]_vars

(***************************************************************************)
(* C13: the teardown of the pool precedes the stop: whenever the process   *)
(* has stopped after the pool was initialized, closeall() has been called. *)
(***************************************************************************)
C13_PoolClosedBeforeStop ==
  pc = "stopped" /\ db_pool # "none" => db_pool = "closed"

(***************************************************************************)
(* C14: the orderly shutdown is live: once the termination request is      *)
(* delivered, and with every store operation and sleep step returning,     *)
(* the process eventually stops.                                           *)
(***************************************************************************)
C14_ShutdownLive == shutdown_requested ~> pc = "stopped"

C14_Witness ==
  /\ shutdown_requested
  /\ pc = "stopped"
  /\ exit_code = 0
  /\ db_pool = "closed"
  /\ obs.sleeps > 0

(***************************************************************************)
(* C15: a cycle in flight is not interrupted by the termination request:   *)
(* it goes through its definitions one by one whatever the flag holds, and *)
(* it is left only after the last one, with commit or rollback done and    *)
(* the session put back; until then main does not reach the shutdown.      *)
(***************************************************************************)
C15_CycleNotInterrupted ==
  [][pc = "reconciling" =>
       /\ pc' = "reconciling" =>
            /\ cycle'.connections = cycle.connections
            /\ cycle'.k \in {cycle.k, cycle.k + 1}
       /\ pc' # "reconciling" =>
            /\ cycle.k > Len(cycle.connections)
            /\ obs'.committed \/ obs'.ret \in {0, -2}
            /\ leased' = 0
            /\ cycle' = NoCycle]_vars

C15_Witness ==
  /\ shutdown_requested
  /\ pc = "reconciling"
  /\ ~cycle.initial
  /\ Len(cycle.connections) = 2
  /\ cycle.k = 3
  /\ cycle.updated_count = 2

(***************************************************************************)
(* C16: duplicate grants are tolerated: granting a (user, connection,      *)
(* permission) that is granted already, by an earlier cycle or earlier in  *)
(* the same cycle, raises nothing, and the grant table holds one row at    *)
(* most per (entity, connection, permission), in the committed store and   *)
(* in the transaction of a cycle in flight.                                *)
(***************************************************************************)
OneRowPerGrant(store) ==
  \A r \in BagToSet(store.permission) : CopiesIn(r, store.permission) = 1

C16_DuplicateGrantTolerated ==
  /\ OneRowPerGrant(db)
  /\ pc = "reconciling" => OneRowPerGrant(cycle.view)
  /\ Finished /\ faults = 0 => obs.errors = 0 /\ obs.ret >= 0

\* the two definitions of the cycle name one connection and both list alice
C16_Witness ==
  /\ pc = "reconciling"
  /\ Len(cycle.connections) = 2
  /\ cycle.k = 3
  /\ cycle.updated_count = 2
  /\ cycle.connections[1].name = cycle.connections[2].name
  /\ Range(cycle.connections[1].users) \cap Range(cycle.connections[2].users) # {}
  /\ BagToSet(cycle.view.permission) # {}
  /\ OneRowPerGrant(cycle.view)

(***************************************************************************)
(* C17: entity get-or-create.  A user name has one entity row at most; a   *)
(* row that exists keeps its id and is not doubled by a later reference;   *)
(* a cycle adds rows only for users its definitions list; and after a      *)
(* cycle that committed without error every user of a created or updated   *)
(* definition has exactly one row.                                         *)
(***************************************************************************)
UniqueEntities(store) ==
  \A e1, e2 \in store.entity :
    (e1.name = e2.name /\ e1.type = e2.type) \/ e1.entity_id = e2.entity_id
      => e1 = e2

EntitiesOf(store, username) ==
  {e \in store.entity : e.name = username /\ e.type = "USER"}

C17_EntityGetOrCreate ==
  /\ UniqueEntities(db)
  /\ pc = "reconciling" => UniqueEntities(cycle.view) /\ db.entity \subseteq cycle.view.entity
  /\ Finished =>
       /\ obs.pre.entity \subseteq db.entity
       /\ \A e \in db.entity \ obs.pre.entity :
            \E j \in DOMAIN obs.loaded : e.name \in Range(obs.loaded[j].users)
  /\ CommittedClean =>
       \A j \in DOMAIN obs.loaded :
         UniqueName(obs.loaded, j) /\ CreatedOrUpdated(obs.pre, obs.loaded[j]) =>
           \A u \in Range(obs.loaded[j].users) : Cardinality(EntitiesOf(db, u)) = 1

\* a definition that is updated lists a user whose entity row exists
C17_Witness ==
  /\ CommittedClean
  /\ \E j \in DOMAIN obs.loaded :
       /\ UniqueName(obs.loaded, j)
       /\ CreatedOrUpdated(obs.pre, obs.loaded[j])
       /\ \E u \in Range(obs.loaded[j].users) :
            /\ EntitiesOf(obs.pre, u) # {}
            /\ EntitiesOf(db, u) = EntitiesOf(obs.pre, u)

(***************************************************************************)
(* C18: reconciliation only adds: whatever the cycles and the changes of   *)
(* the definition files, no step removes a connection row, an entity row   *)
(* or a grant from the committed store.                                    *)
(***************************************************************************)
C18_AdditiveOnly ==
  [][/\ db.connection \subseteq db'.connection
     /\ db.entity \subseteq db'.entity
     /\ \A r \in BagToSet(db.permission) : BagIn(r, db'.permission)]_vars

\* a cycle wrote and committed while the definition of a stored connection
\* that has grants was gone
C18_Witness ==
  /\ Finished
  /\ obs.committed
  /\ obs.wrote
  /\ \E c \in db.connection :
       /\ \A j \in DOMAIN obs.loaded : obs.loaded[j].name # c.connection_name
       /\ \E r \in BagToSet(db.permission) : r.connection_id = c.connection_id

(***************************************************************************)
(* C19: the fingerprints are committed before the reconciliation: when a   *)
(* session is asked for, the cache holds the digest of every file that     *)
(* can be read; so once a cycle has failed (acquisition error, store       *)
(* error, rollback), a cycle with no file changed since the one before or  *)
(* with every file's digest in the cache does not touch the store.         *)
(***************************************************************************)
CacheCurrent ==
  \A f \in Range(connection_files(files)) :
    files[f].readable => state_cache[f] = Sha256(files[f].doc)

C19_FailedCycleNotRetried ==
  /\ pc = "reconciling" => CacheCurrent
  /\ obs.ran /\ obs.lastError = "pool" /\ ~obs.edited => CacheCurrent
  /\ obs.ran /\ faults > 0 /\ (obs.quiet \/ obs.fpSame) =>
       /\ ~obs.acquired
       /\ ~obs.touched
       /\ obs.ret = 0
       /\ db = obs.pre

\* the only cycle before this one failed, no file was changed, and the
\* cycle does nothing although a definition that can be loaded has no
\* connection in the store
C19_Witness ==
  /\ Finished
  /\ faults > 0
  /\ edits = 0
  /\ obs.quiet
  /\ obs.ret = 0
  /\ ~obs.touched
  /\ \E f \in Range(connection_files(files)) :
       /\ Loadable(files[f])
       /\ ByName(db, yaml_safe_load(files[f].doc).name) = {}

(***************************************************************************)
(* C20: a file whose digest cannot be computed is taken as unchanged.  At  *)
(* a call of process_connections the cache entry of such a file is left    *)
(* as it was; when every file that can be read has its digest in the       *)
(* cache the call reports no change and takes no session; and the call     *)
(* goes on with the other files: those whose digest is new are recorded    *)
(* and their definitions loaded.                                           *)
(***************************************************************************)
C20_HashFailureIsUnchanged ==
  [][CycleStarts =>
       /\ \A f \in Range(connection_files(files)) :
            ~files[f].readable => state_cache'[f] = state_cache[f]
       /\ CacheCurrent =>
            /\ pc' = "loop"
            /\ leased' = leased
            /\ ~obs'.acquired
            /\ obs'.ret = 0
            /\ state_cache' = state_cache
       /\ \A g \in Range(connection_files(files)) :
            files[g].readable /\ state_cache[g] # Sha256(files[g].doc) =>
              /\ state_cache'[g] = Sha256(files[g].doc)
              /\ Loadable(files[g]) =>
                   yaml_safe_load(files[g].doc) \in Range(obs'.loaded)]_vars

\* a call was made while a file could not be read: its cache entry is the
\* digest recorded before, and the call reported no change
C20_Witness ==
  /\ Finished
  /\ ~obs.edited
  /\ ~obs.first
  /\ obs.ret = 0
  /\ ~obs.acquired
  /\ \E f \in Range(connection_files(files)) :
       /\ ~files[f].readable
       /\ state_cache[f] = Sha256(files[f].doc)

(***************************************************************************)
(* C21: a file that does not parse, cannot be read or is empty is left out *)
(* of the cycle and does not abort it.  A call that detects a change loads *)
(* the definition of every other file and nothing else, and with one      *)
(* loaded it goes on to the store or fails to get a session; a cycle that *)
(* commits without error has reconciled every definition it loaded.        *)
(***************************************************************************)
LoadableFiles == {f \in Range(connection_files(files)) : Loadable(files[f])}

C21_BadFileExcluded ==
  [][/\ CycleStarts /\ ~CacheCurrent =>
          /\ Len(obs'.loaded) = Cardinality(LoadableFiles)
          /\ \A f \in LoadableFiles :
               yaml_safe_load(files[f].doc) \in Range(obs'.loaded)
          /\ LoadableFiles # {} =>
               pc' = "reconciling" \/ obs'.lastError = "pool"
     /\ pc = "reconciling" /\ pc' # "reconciling"
          /\ obs'.committed /\ obs'.errors = 0 =>
            obs'.ret = Len(obs.loaded)]_vars

\* one file gives no definition, the definition of the other was reconciled
C21_Witness ==
  /\ Finished
  /\ ~obs.edited
  /\ obs.committed
  /\ obs.errors = 0
  /\ obs.ret = 1
  /\ Len(obs.loaded) = 1
  /\ \E f \in Range(connection_files(files)) : ~Loadable(files[f])

(***************************************************************************)
(* C22: the loss of the fingerprint cache costs a reconciliation pass and  *)
(* nothing else: the first cycle of a process that starts with an empty    *)
(* cache, on a store that has the parameters and the grants of every       *)
(* definition it loads, takes a session, writes nothing and leaves the     *)
(* store as it was.                                                        *)
(***************************************************************************)
StoreConverged(store, loaded) ==
  \A j \in DOMAIN loaded :
    ParametersConverged(store, loaded[j]) /\ GrantsConverged(store, loaded[j])

C22_CacheLossHarmless ==
  (/\ Finished
   /\ obs.first
   /\ faults = 0
   /\ obs.loaded # <<>>
   /\ StoreConverged(obs.pre, obs.loaded))
  => obs.acquired /\ ~obs.wrote /\ db = obs.pre

(***************************************************************************)
(* C23: skip on equal parameters.  When the connection of a definition     *)
(* exists and its stored parameter set is equal, key by key and value by   *)
(* value, to the definition's, the reconciliation of the definition writes *)
(* nothing: the transaction's view of the store is left as it was and no   *)
(* writing statement is executed.                                          *)
(***************************************************************************)
\* the definition the loop of line 300 is at has a record with equal parameters
AtEqualDefinition ==
  /\ pc = "reconciling"
  /\ cycle.k <= Len(cycle.connections)
  /\ cycle.txn = "ok"
  /\ \E c \in cycle.view.connection :
       /\ c.connection_name = cycle.connections[cycle.k].name
       /\ \A q \in cycle.view.connection :
            q.connection_name = c.connection_name => c.connection_id <= q.connection_id
       /\ StoredParameters(cycle.view, c.connection_id)
            = ParametersOf(cycle.connections[cycle.k])

C23_SkipOnEqualParameters ==
  [][AtEqualDefinition /\ cycle'.k = cycle.k + 1 =>
       /\ cycle'.view = cycle.view
       /\ obs'.wrote = obs.wrote]_vars

\* the first definition of the cycle was skipped although it lists a user
\* who holds no grant
C23_Witness ==
  /\ pc = "reconciling"
  /\ cycle.k = 2
  /\ cycle.updated_count = 1
  /\ obs.touched
  /\ ~obs.wrote
  /\ cycle.view = obs.pre
  /\ ByName(obs.pre, obs.loaded[1].name) # {}
  /\ obs.loaded[1].users # <<>>
  /\ ~GrantsConverged(cycle.view, obs.loaded[1])

(***************************************************************************)
(* C24: the permission writes of a definition that is created or updated.  *)
(* Without a users key, or with an empty users list, the entities and the  *)
(* grants are left as they were.  With users and no permissions key every  *)
(* listed user holds READ on the connection afterwards, and every grant    *)
(* that was added is a READ grant on that connection.                      *)
(***************************************************************************)
\* the record the SELECT of line 213 finds for the name
RecordOf(store, name) == FetchOne(ByName(store, name))

\* the loop of line 300 reconciles its definition without error, and not by
\* the skip of line 228
CreatesOrUpdates ==
  /\ pc = "reconciling"
  /\ cycle.k <= Len(cycle.connections)
  /\ ~AtEqualDefinition
  /\ cycle'.k = cycle.k + 1
  /\ cycle'.updated_count = cycle.updated_count + 1

C24_PermissionWrites ==
  [][CreatesOrUpdates =>
       LET d == cycle.connections[cycle.k]
           added == BagToSet(cycle'.view.permission) \ BagToSet(cycle.view.permission)
       IN /\ BagToSet(cycle.view.permission) \subseteq BagToSet(cycle'.view.permission)
          /\ (~d.hasUsers \/ d.users = <<>>) =>
               /\ cycle'.view.entity = cycle.view.entity
               /\ cycle'.view.permission = cycle.view.permission
          /\ (d.hasUsers /\ d.users # <<>> /\ ~d.hasPermissions) =>
               /\ \A u \in Range(d.users) :
                    \E e \in cycle'.view.entity :
                      /\ e.name = u
                      /\ BagIn([entity_id |-> e.entity_id,
                                connection_id |-> RecordOf(cycle'.view, d.name).connection_id,
                                permission |-> "READ"], cycle'.view.permission)
               /\ \A r \in added :
                    /\ r.permission = "READ"
                    /\ r.connection_id = RecordOf(cycle'.view, d.name).connection_id
                    /\ \E e \in cycle'.view.entity :
                         e.entity_id = r.entity_id /\ e.name \in Range(d.users)]_vars

\* a definition with users and no permissions key was updated on a
\* connection that has a grant other than READ
C24_Witness ==
  /\ pc = "reconciling"
  /\ cycle.k = 2
  /\ cycle.updated_count = 1
  /\ obs.wrote
  /\ obs.loaded[1].users # <<>>
  /\ ~obs.loaded[1].hasPermissions
  /\ \E r \in BagToSet(obs.pre.permission) : r.permission = "UPDATE"
  /\ \E r \in BagToSet(cycle.view.permission) : r.permission = "READ"

(***************************************************************************)
(* C25: no overlapping cycles.  One session at most is leased from the     *)
(* pool; it is leased exactly while process_connections is past line 294;  *)
(* and where main calls process_connections (lines 369 and 389) no cycle   *)
(* is in flight, no session is leased, and the cycle before, if it took a  *)
(* session, has committed or rolled back.                                  *)
(***************************************************************************)
C25_NoOverlappingCycles ==
  /\ leased \in {0, 1}
  /\ pc = "reconciling" => leased = 1 /\ cycle # NoCycle
  /\ pc # "reconciling" => leased = 0 /\ cycle = NoCycle
  /\ pc \in {"initial", "after_sleep"} /\ obs.ran /\ obs.acquired =>
       obs.committed \/ obs.ret = 0

\* a cycle of the loop is in flight after an earlier one committed
C25_Witness ==
  /\ pc = "reconciling"
  /\ ~cycle.initial
  /\ leased = 1
  /\ obs.pre # EmptyStore

(***************************************************************************)
(* C26: a failure to get a session is an error of the cycle only: the      *)
(* call executes no statement and writes nothing, the store and the number *)
(* of leased sessions are as before, no exception leaves the call, it      *)
(* returns 0, and main goes on with the loop.                              *)
(***************************************************************************)
C26_AcquisitionFailureRecoverable ==
  obs.lastError = "pool" =>
    /\ ~obs.acquired
    /\ ~obs.touched
    /\ ~obs.wrote
    /\ obs.ret = 0
    /\ db = obs.pre
    /\ leased = 0
    /\ exit_code # 1
    /\ ~shutdown_requested => Waiting

\* the acquisition failed in a cycle of the loop, and main is back in the
\* idle wait
C26_Witness ==
  /\ obs.lastError = "pool"
  /\ ~obs.first
  /\ obs.loaded # <<>>
  /\ pc = "sleep"
  /\ tick = 1

(***************************************************************************)
(* C27: resolve_template_dir resolves by priority: a non-empty             *)
(* template_dir is returned as is whatever the other arguments; otherwise  *)
(* the path of the first entry of the discovered-templates file whose name *)
(* equals template_name; otherwise (file missing, unparsable, or no        *)
(* matching entry) "packer-templates/<template_name>"; and when neither    *)
(* template_name nor template_dir is given the result is "./".             *)
(***************************************************************************)
\* the entries of the discovered-templates file, none unless it is a list
TemplatesOf(discovered) ==
  IF discovered.kind = "list" THEN discovered.templates ELSE <<>>

\* the entries whose name equals template_name: they have a name
MatchingEntries(discovered, template_name) ==
  {i \in 1..Len(TemplatesOf(discovered)) :
     /\ "name" \in DOMAIN TemplatesOf(discovered)[i]
     /\ S(TemplatesOf(discovered)[i]["name"]) = template_name}

FirstMatching(discovered, template_name) ==
  CHOOSE i \in MatchingEntries(discovered, template_name) :
    \A j \in MatchingEntries(discovered, template_name) : i <= j

C27_ResolvePriority ==
  resolved.called =>
    LET name == resolved.template_name
        dir == resolved.template_dir
        matching == MatchingEntries(resolved.discovered, name)
    IN /\ Truthy(dir) => resolved.result = dir
       /\ ~Truthy(dir) /\ Truthy(name) /\ matching # {}
            /\ "path" \in DOMAIN TemplatesOf(resolved.discovered)[
                                   FirstMatching(resolved.discovered, name)]
          => resolved.result =
               S(TemplatesOf(resolved.discovered)[
                   FirstMatching(resolved.discovered, name)]["path"])
       /\ ~Truthy(dir) /\ Truthy(name) /\ matching = {}
          => resolved.result = S("packer-templates/" \o name.v)
       /\ ~Truthy(dir) /\ ~Truthy(name) => resolved.result = S("./")

(***************************************************************************)
(* C28: pool initialization.  Within one process the pool handle is        *)
(* created at most once; init_connection_pool called when a pool exists    *)
(* changes nothing and does not read the credential; get_db_connection     *)
(* initializes the pool first when none exists; and when the credential    *)
(* file or the postgresql-password key is missing, initialization raises   *)
(* and leaves the pool handle unset.                                       *)
(***************************************************************************)
C28_PoolInitialization ==
  /\ pool_call.created <= 1
  /\ pool_call.op = "init_connection_pool" /\ pool_call.before # "none"
     => /\ db_pool = pool_call.before /\ leased = pool_call.out
        /\ ~pool_call.read /\ ~pool_call.raised
  /\ pool_call.op = "get_db_connection" /\ pool_call.before = "none"
     => /\ pool_call.read
        /\ ~pool_call.raised => db_pool = "open" /\ pool_call.created = 1
                                  /\ leased = pool_call.out + 1
  /\ pool_call.op \in {"init_connection_pool", "get_db_connection"}
       /\ pool_call.before = "none" /\ pool_call.secret \in {"nofile", "nokey"}
     => pool_call.raised /\ db_pool = "none" /\ pool_call.created = 0

\* get_db_connection was called first and made the pool; later a call of
\* init_connection_pool found it
C28_Witness ==
  /\ pool_call.op = "init_connection_pool"
  /\ pool_call.before = "open"
  /\ pool_call.created = 1
  /\ leased = 1

(***************************************************************************)
(* C29: termination during the idle wait.  If the termination flag becomes *)
(* set while the controller is sleeping between cycles, at most one        *)
(* further one-second sleep step is taken, the remaining steps of the      *)
(* interval are skipped, and the controller leaves the loop without        *)
(* starting a reconciliation cycle.                                        *)
(***************************************************************************)
\* main is in the loop of lines 377-380 or at the test of line 382
IdleWait == pc \in {"sleep_check", "sleep", "after_sleep"}

C29_TerminationWhileIdle ==
  [][/\ obs'.sleeps <= 1
     /\ shutdown_requested /\ IdleWait
        => /\ pc' \in {"sleep_check", "sleep", "after_sleep", "finally"}
           /\ cycle' = cycle /\ db' = db /\ leased' = leased
           /\ obs'.ran = obs.ran /\ obs'.ret = obs.ret
     /\ shutdown_requested /\ pc = "sleep_check" => pc' = "after_sleep"
     /\ shutdown_requested /\ pc = "after_sleep" => pc' = "finally"]_vars

\* the flag was set during the first sleep step of an interval and that step
\* has ended: steps of the interval remain, and line 378 is next
C29_Witness ==
  /\ shutdown_requested
  /\ pc = "sleep_check"
  /\ obs.sleeps = 1
  /\ tick = 1
  /\ tick < POLL_INTERVAL
  /\ obs.ran

(***************************************************************************)
(* C30: name uniqueness.  In every committed store state there is at most  *)
(* one connection record per connection name, also when two definition     *)
(* files of the same cycle carry the same name; in that case the first     *)
(* creates the record and the later one is reconciled against that same    *)
(* record, so the record ends with the parameter set of the definition     *)
(* processed last.                                                         *)
(***************************************************************************)
\* the records of a name
RecordsOf(store, name) == {c \in store.connection : c.connection_name = name}

\* the i-th and the j-th loaded definition carry one name, the j-th is the
\* last that does, and the store held no record of the name
SameNameCreated(i, j) ==
  /\ i < j
  /\ obs.loaded[i].name = obs.loaded[j].name
  /\ \A k \in DOMAIN obs.loaded : obs.loaded[k].name = obs.loaded[j].name => k <= j
  /\ RecordsOf(obs.pre, obs.loaded[j].name) = {}

C30_NameUniqueness ==
  /\ \A c \in db.connection : RecordsOf(db, c.connection_name) = {c}
  /\ CommittedClean =>
       \A i, j \in DOMAIN obs.loaded :
         SameNameCreated(i, j) =>
           /\ Cardinality(RecordsOf(db, obs.loaded[j].name)) = 1
           /\ \A c \in RecordsOf(db, obs.loaded[j].name) :
                StoredParameters(db, c.connection_id)
                  = TextOf(ParametersOf(obs.loaded[j]))

(***************************************************************************)
(* C31: reconciling a definition against an existing connection record     *)
(* never changes that record's identifier, name or protocol: the update    *)
(* path compares and rewrites parameters only, so a definition whose       *)
(* protocol differs from the stored protocol leaves the stored protocol as *)
(* it was.                                                                 *)
(***************************************************************************)
C31_RecordKept ==
  [][/\ \A c \in db.connection : c \in db'.connection
     /\ pc = "reconciling" /\ pc' = "reconciling"
        => \A c \in cycle.view.connection : c \in cycle'.view.connection
     /\ pc = "reconciling" /\ cycle.k <= Len(cycle.connections)
          /\ ByName(cycle.view, cycle.connections[cycle.k].name) # {}
        => cycle'.view.connection = cycle.view.connection]_vars

\* a definition whose protocol and parameters differ from the stored ones
\* was updated, and the cycle committed
C31_Witness ==
  /\ CommittedClean
  /\ obs.wrote
  /\ Len(obs.loaded) = 1
  /\ ByName(obs.pre, obs.loaded[1].name) # {}
  /\ RecordOf(obs.pre, obs.loaded[1].name).protocol # obs.loaded[1].protocol
  /\ RecordOf(db, obs.loaded[1].name) = RecordOf(obs.pre, obs.loaded[1].name)
  /\ StoredParameters(db, RecordOf(db, obs.loaded[1].name).connection_id)
       # StoredParameters(obs.pre, RecordOf(db, obs.loaded[1].name).connection_id)

====
